---- MODULE Spec2Model ----
(***************************************************************************)
(* A model of snapdragon-node's Node (src/index.js): the parent/child      *)
(* linkage kept by push, unshift, pop, shift and remove, the lazily        *)
(* revalidated index cache, and the recursive prev/next accessors.         *)
(*                                                                         *)
(* Nodes are identified by 1..NumNodes.  JavaScript positions are          *)
(* 0-based; TLA+ sequences are 1-based, so position i of an array is       *)
(* element i + 1 of the sequence that models it.                           *)
(***************************************************************************)
EXTENDS Integers, Sequences, FiniteSets, TLC

\* ---------------------------------------------------------------- bounds
NumNodes == 3        \* node objects in existence
MaxCalls == 4        \* calls of the API explored from construction
MaxDepth == 5        \* nested getter calls the call stack holds

Nodes == 1..NumNodes

\* ------------------------------------------------ values of the program
Null == 0            \* `parent` undefined: constructor without a parent
NoIdx == -2          \* `idx` undefined: no index read or written so far
NoNodes == <<Null>>  \* `nodes` undefined: no children array yet
SetVals == {1, 42}   \* values written through the index setter

VARIABLES
  parent,   \* parent[n]: the node's non-enumerable parent, or Null
  nodes,    \* nodes[n]:  the node's children array, or NoNodes
  idx,      \* idx[n]:    the node's cached index, or NoIdx
  count,    \* count[n]:  the node's push/unshift minus pop/shift counter
  walk,     \* the pending recursive call of a prev/next getter
  calls,    \* calls of the API made so far
  ret,      \* the last call of the API and what it returned
  props     \* props[n]: the node's own fields (type, val, isNode, ...)

vars == <<parent, nodes, idx, count, walk, calls, ret, props>>

\* ----------------------------------------------------- JavaScript values
\* A value handed to the API or held in a field is a tagged record; the tag
\* is what typeof / kind-of report for it.
Undefined == [t |-> "undefined"]

NullValue == [t |-> "null"]

Str(s) == [t |-> "string", s |-> s]

Bool(b) == [t |-> "boolean", b |-> b]

Num(i) == [t |-> "number", i |-> i]

\* a Node instance
Ref(n) == [t |-> "object", node |-> n]

\* a plain object with the enumerable own properties m
Obj(m) == [t |-> "object", map |-> m]

\* typeof x === 'string'
IsString(x) == x.t = "string"

\* typeOf(x) === 'object'
IsObject(x) == x.t = "object"

\* the left operand of `type || parent` is kept
Truthy(x) ==
  /\ x.t \notin {"undefined", "null"}
  /\ x /= Str("") /\ x /= Num(0) /\ x /= Bool(FALSE)

\* the value of the hidden property `parent` as the variable parent holds it
AsParent(x) == IF IsObject(x) /\ "node" \in DOMAIN x THEN x.node ELSE Null

\* Object.getOwnPropertyNames(Node.prototype)
OwnNames ==
  {"constructor", "clone", "define", "isEmpty", "push", "unshift", "pop",
   "shift", "remove", "find", "isType", "hasType", "siblings", "index",
   "prev", "next", "first", "last", "scope"}

\* assign(node, token): every key of token that is not a name of the
\* prototype is written on the node
Assign(node, token) ==
  LET copied == DOMAIN token \ OwnNames
  IN [k \in DOMAIN node \cup copied |->
        IF k \in copied THEN token[k] ELSE node[k]]

\* a constructor that takes the parent from its third argument only
ConstructorThirdOnly(val, type, par) ==
  LET hidden == ("isNode" :> Bool(TRUE))
  IN IF ~IsString(type) /\ IsObject(val) /\ "map" \in DOMAIN val
     THEN [props |-> Assign(hidden, val.map), parent |-> AsParent(par)]
     ELSE [props |-> hidden @@ ("type" :> (IF IsString(type) THEN type
                                           ELSE NullValue))
                            @@ ("val" :> val),
           parent |-> AsParent(par)]

\* new Node(val, type, parent): the own fields and the parent of the new node
Constructor(val, type, par) ==
  LET given == IF IsString(type) THEN par
               ELSE IF Truthy(type) THEN type ELSE par
      hidden == ("isNode" :> Bool(TRUE))
  IN IF ~IsString(type) /\ IsObject(val) /\ "map" \in DOMAIN val
     THEN [props |-> Assign(hidden, val.map), parent |-> AsParent(given)]
     ELSE [props |-> hidden @@ ("type" :> (IF IsString(type) THEN type
                                           ELSE NullValue))
                            @@ ("val" :> val),
           parent |-> AsParent(given)]

\* Node.isNode(x): an object whose isNode is true
IsNode(x) ==
  /\ IsObject(x)
  /\ IF "node" \in DOMAIN x
     THEN /\ "isNode" \in DOMAIN props[x.node]
          /\ props[x.node]["isNode"] = Bool(TRUE)
     ELSE "isNode" \in DOMAIN x.map /\ x.map["isNode"] = Bool(TRUE)

\* ----------------------------------------------------------- helpers
IsArray(a) == a /= NoNodes

\* Array.prototype.indexOf: first 0-based position of n in a, or -1
IndexOf(a, n) ==
  IF \E i \in 1..Len(a) : a[i] = n
  THEN (CHOOSE i \in 1..Len(a) : a[i] = n /\ \A j \in 1..(i - 1) : a[j] /= n) - 1
  ELSE -1

\* a[i] for a 0-based i; Null stands for undefined
At(a, i) == IF i \in 0..(Len(a) - 1) THEN a[i + 1] ELSE Null

\* splice(idx + 1, 1): the position after the one asked for is taken out
SpliceAfter(a, i) ==
  IF i + 1 \in 0..(Len(a) - 1)
  THEN [k \in 1..(Len(a) - 1) |-> IF k <= i + 1 THEN a[k] ELSE a[k + 1]]
  ELSE a

\* Array.prototype.splice(i, 1): the array without position i
Splice(a, i) ==
  IF i \in 0..(Len(a) - 1)
  THEN [k \in 1..(Len(a) - 1) |-> IF k <= i THEN a[k] ELSE a[k + 1]]
  ELSE a

\* get siblings(), read in a heap whose children arrays are nds
SiblingsIn(nds, n) == IF parent[n] /= Null THEN nds[parent[n]] ELSE NoNodes

Siblings(n) == SiblingsIn(nodes, n)

\* get index(): the cached position is trusted when the sibling there is
\* this node; otherwise the array is searched
CacheHitIn(nds, n) ==
  /\ idx[n] /= -1
  /\ At(SiblingsIn(nds, n), idx[n]) = n

\* a getter that returns whatever position is cached, without looking at
\* the sibling there
IndexInTrustsCache(nds, n) ==
  IF ~IsArray(SiblingsIn(nds, n)) THEN -1
  ELSE IF idx[n] /= -1 /\ idx[n] /= NoIdx THEN idx[n]
  ELSE IndexOf(SiblingsIn(nds, n), n)

IndexIn(nds, n) ==
  IF ~IsArray(SiblingsIn(nds, n)) THEN -1
  ELSE IF CacheHitIn(nds, n) THEN idx[n]
  ELSE IndexOf(SiblingsIn(nds, n), n)

\* what get index() leaves in this.idx
IdxAfterIn(nds, n) ==
  IF ~IsArray(SiblingsIn(nds, n)) THEN idx[n] ELSE IndexIn(nds, n)

Index(n) == IndexIn(nodes, n)

Call(op, self, arg, kind, val) ==
  [op |-> op, self |-> self, arg |-> arg, kind |-> kind, val |-> val]

\* no getter is in progress: the next call of the API can begin
Idle == walk.op = "none"

\* a call of the API begins
Begin ==
  /\ Idle
  /\ calls < MaxCalls
  /\ calls' = calls + 1
NoWalk == [op |-> "none", start |-> Null, cur |-> Null, depth |-> 0]

\* ------------------------------------------------------------- Init
\* new Node(val) or new Node(val, parent): a node may be given a parent that
\* was constructed before it
Init ==
  /\ parent \in {f \in [Nodes -> Nodes \cup {Null}] :
                   \A n \in Nodes : f[n] = Null \/ f[n] < n}
  /\ props = [n \in Nodes |->
               Constructor(Str("*"),
                           IF parent[n] = Null THEN Undefined ELSE Ref(parent[n]),
                           Undefined).props]
  /\ nodes = [n \in Nodes |-> NoNodes]
  /\ idx = [n \in Nodes |-> NoIdx]
  /\ count = [n \in Nodes |-> 0]
  /\ walk = NoWalk
  /\ calls = 0
  /\ ret = Call("new", Null, Null, "none", 0)

\* ----------------------------------------------------------- actions
\* assert(val, message): throw new Error(message); nothing has been written
Throw(op, p, x) ==
  /\ ret' = Call(op, p, AsParent(x), "error", 0)
  /\ UNCHANGED <<parent, nodes, idx, count, walk, props>>

\* a push that appends the node and forgets to set its parent
PushBodyKeepsParent(p, n) ==
  /\ nodes' = [nodes EXCEPT ![p] =
                 Append(IF IsArray(nodes[p]) THEN nodes[p] ELSE <<>>, n)]
  /\ count' = [count EXCEPT ![p] = @ + 1]
  /\ ret' = Call("push", p, n, "int", Len(nodes'[p]))
  /\ UNCHANGED <<parent, idx, walk, props>>

\* a push that takes the node out of the children of its previous parent
PushBodyDetaches(p, n) ==
  /\ parent' = [parent EXCEPT ![n] = p]
  /\ nodes' = [q \in DOMAIN nodes |->
                 IF q = p
                 THEN Append(IF IsArray(nodes[p]) THEN nodes[p] ELSE <<>>, n)
                 ELSE IF IsArray(nodes[q])
                 THEN SelectSeq(nodes[q], LAMBDA x : x /= n)
                 ELSE nodes[q]]
  /\ count' = [count EXCEPT ![p] = @ + 1]
  /\ ret' = Call("push", p, n, "int", Len(nodes'[p]))
  /\ UNCHANGED <<idx, walk, props>>

\* push(node)
PushBody(p, n) ==
  /\ parent' = [parent EXCEPT ![n] = p]
  /\ nodes' = [nodes EXCEPT ![p] =
                 Append(IF IsArray(nodes[p]) THEN nodes[p] ELSE <<>>, n)]
  /\ count' = [count EXCEPT ![p] = @ + 1]
  /\ ret' = Call("push", p, n, "int", Len(nodes'[p]))
  /\ UNCHANGED <<idx, walk, props>>

\* a push that defines the parent before it looks at the argument
PushCallDefinesFirst(p, x) ==
  IF IsNode(x) THEN PushBody(p, x.node)
  ELSE IF "node" \in DOMAIN x
  THEN /\ parent' = [parent EXCEPT ![x.node] = p]
       /\ ret' = Call("push", p, x.node, "error", 0)
       /\ UNCHANGED <<nodes, idx, count, walk, props>>
  ELSE Throw("push", p, x)

\* push(node) called with the value x: expect(Node.isNode(node)) comes first
PushCall(p, x) == IF IsNode(x) THEN PushBody(p, x.node) ELSE Throw("push", p, x)

Push(p, n) == Begin /\ PushCall(p, Ref(n))

\* an unshift that prepends the node and leaves its parent reference alone
UnshiftBodyKeepsParent(p, n) ==
  /\ nodes' = [nodes EXCEPT ![p] =
                 <<n>> \o (IF IsArray(nodes[p]) THEN nodes[p] ELSE <<>>)]
  /\ count' = [count EXCEPT ![p] = @ + 1]
  /\ ret' = Call("unshift", p, n, "int", Len(nodes'[p]))
  /\ UNCHANGED <<parent, idx, walk, props>>

\* an unshift that puts the node behind the children
UnshiftBodyAppends(p, n) ==
  /\ parent' = [parent EXCEPT ![n] = p]
  /\ nodes' = [nodes EXCEPT ![p] =
                 Append(IF IsArray(nodes[p]) THEN nodes[p] ELSE <<>>, n)]
  /\ count' = [count EXCEPT ![p] = @ + 1]
  /\ ret' = Call("unshift", p, n, "int", Len(nodes'[p]))
  /\ UNCHANGED <<idx, walk, props>>

\* unshift(node)
UnshiftBody(p, n) ==
  /\ parent' = [parent EXCEPT ![n] = p]
  /\ nodes' = [nodes EXCEPT ![p] =
                 <<n>> \o (IF IsArray(nodes[p]) THEN nodes[p] ELSE <<>>)]
  /\ count' = [count EXCEPT ![p] = @ + 1]
  /\ ret' = Call("unshift", p, n, "int", Len(nodes'[p]))
  /\ UNCHANGED <<idx, walk, props>>

\* unshift(node) called with the value x
UnshiftCall(p, x) ==
  IF IsNode(x) THEN UnshiftBody(p, x.node) ELSE Throw("unshift", p, x)

Unshift(p, n) == Begin /\ UnshiftCall(p, Ref(n))

\* a pop that takes the first child
PopBodyTakesFirst(p) ==
  /\ count' = [count EXCEPT ![p] = @ - 1]
  /\ IF IsArray(nodes[p]) /\ Len(nodes[p]) > 0
     THEN /\ nodes' = [nodes EXCEPT ![p] = Tail(@)]
          /\ ret' = Call("pop", p, Null, "node", Head(nodes[p]))
     ELSE /\ nodes' = nodes
          /\ ret' = Call("pop", p, Null, "undef", 0)
  /\ UNCHANGED <<parent, idx, walk, props>>

\* pop(): this.nodes && this.nodes.pop()
PopBody(p) ==
  /\ count' = [count EXCEPT ![p] = @ - 1]
  /\ IF IsArray(nodes[p]) /\ Len(nodes[p]) > 0
     THEN /\ nodes' = [nodes EXCEPT ![p] = SubSeq(@, 1, Len(@) - 1)]
          /\ ret' = Call("pop", p, Null, "node", nodes[p][Len(nodes[p])])
     ELSE /\ nodes' = nodes
          /\ ret' = Call("pop", p, Null, "undef", 0)
  /\ UNCHANGED <<parent, idx, walk, props>>

Pop(p) == Begin /\ PopBody(p)

\* a shift that takes the last child
ShiftBodyTakesLast(p) ==
  /\ count' = [count EXCEPT ![p] = @ - 1]
  /\ IF IsArray(nodes[p]) /\ Len(nodes[p]) > 0
     THEN /\ nodes' = [nodes EXCEPT ![p] = SubSeq(@, 1, Len(@) - 1)]
          /\ ret' = Call("shift", p, Null, "node", nodes[p][Len(nodes[p])])
     ELSE /\ nodes' = nodes
          /\ ret' = Call("shift", p, Null, "undef", 0)
  /\ UNCHANGED <<parent, idx, walk, props>>

\* shift(): this.nodes && this.nodes.shift()
ShiftBody(p) ==
  /\ count' = [count EXCEPT ![p] = @ - 1]
  /\ IF IsArray(nodes[p]) /\ Len(nodes[p]) > 0
     THEN /\ nodes' = [nodes EXCEPT ![p] = Tail(@)]
          /\ ret' = Call("shift", p, Null, "node", Head(nodes[p]))
     ELSE /\ nodes' = nodes
          /\ ret' = Call("shift", p, Null, "undef", 0)
  /\ UNCHANGED <<parent, idx, walk, props>>

Shift(p) == Begin /\ ShiftBody(p)

\* remove(node): the children array is created when missing, node.index is
\* read (in the heap that already holds the created array), and a position
\* other than -1 is spliced out of this node's own array; the value returned
\* is the array splice() returns
RemoveBody(p, c) ==
  /\ LET nds == [nodes EXCEPT ![p] = IF IsArray(@) THEN @ ELSE <<>>]
         i == IndexIn(nds, c)
     IN IF i /= -1
        THEN /\ idx' = [idx EXCEPT ![c] = -1]
             /\ nodes' = [nds EXCEPT ![p] = Splice(@, i)]
             /\ ret' = IF At(nds[p], i) /= Null
                       THEN Call("remove", p, c, "array1", At(nds[p], i))
                       ELSE Call("remove", p, c, "array0", 0)
        ELSE /\ idx' = [idx EXCEPT ![c] = IdxAfterIn(nds, c)]
             /\ nodes' = nds
             /\ ret' = Call("remove", p, c, "null", 0)
  /\ UNCHANGED <<parent, count, walk, props>>

\* remove(node) called with the value x
RemoveCall(p, x) ==
  IF IsNode(x) THEN RemoveBody(p, x.node) ELSE Throw("remove", p, x)

Remove(p, c) == Begin /\ RemoveCall(p, Ref(c))

\* node.index = v
SetIndex(n, v) ==
  /\ Begin
  /\ idx' = [idx EXCEPT ![n] = v]
  /\ ret' = Call("setIndex", n, Null, "int", v)
  /\ UNCHANGED <<parent, nodes, count, walk, props>>

\* a getter that returns the position it had cached and repairs the cache
\* only afterwards
ReadIndexBodyReturnsCache(n) ==
  /\ idx' = [idx EXCEPT ![n] = IdxAfterIn(nodes, n)]
  /\ ret' = Call("index", n, Null, "int",
                 IF idx[n] = NoIdx THEN Index(n) ELSE idx[n])
  /\ UNCHANGED <<parent, nodes, count, walk, props>>

\* a getter that caches the position of every sibling it walks past
ReadIndexBodyCachesSiblings(n) ==
  /\ idx' = [x \in DOMAIN idx |->
               IF x = n THEN IdxAfterIn(nodes, n)
               ELSE IF IsArray(Siblings(n)) /\ IndexOf(Siblings(n), x) /= -1
               THEN IndexOf(Siblings(n), x)
               ELSE idx[x]]
  /\ ret' = Call("index", n, Null, "int", Index(n))
  /\ UNCHANGED <<parent, nodes, count, walk, props>>

\* node.index
ReadIndexBody(n) ==
  /\ idx' = [idx EXCEPT ![n] = IdxAfterIn(nodes, n)]
  /\ ret' = Call("index", n, Null, "int", Index(n))
  /\ UNCHANGED <<parent, nodes, count, walk, props>>

ReadIndex(n) == Begin /\ ReadIndexBody(n)

\* getters that look among the siblings only: siblings[index -/+ 1] || null
HopAmongSiblings(op, start, n, d) ==
  /\ IF ~IsArray(Siblings(n))
     THEN /\ ret' = Call(op, start, Null, "null", 0)
          /\ idx' = idx
     ELSE LET s == At(Siblings(n), Index(n) + (IF op = "prev" THEN -1 ELSE 1))
          IN /\ idx' = [idx EXCEPT ![n] = IdxAfterIn(nodes, n)]
             /\ ret' = IF s /= Null THEN Call(op, start, Null, "node", s)
                       ELSE Call(op, start, Null, "null", 0)
  /\ walk' = NoWalk
  /\ UNCHANGED <<parent, nodes, count, props>>

\* One activation of get prev() / get next() on node n, the d-th nested one
\* of the read that began at node start: siblings[index -/+ 1] ||
\* parent.prev/next.  The nested call needs a stack frame; when the stack
\* holds MaxDepth of them already the read ends in a RangeError.
Hop(op, start, n, d) ==
  /\ IF ~IsArray(Siblings(n))
     THEN /\ ret' = Call(op, start, Null, "null", 0)
          /\ walk' = NoWalk
          /\ idx' = idx
     ELSE LET s == At(Siblings(n), Index(n) + (IF op = "prev" THEN -1 ELSE 1))
          IN /\ idx' = [idx EXCEPT ![n] = IdxAfterIn(nodes, n)]
             /\ IF s /= Null
                THEN /\ ret' = Call(op, start, Null, "node", s)
                     /\ walk' = NoWalk
                ELSE IF d < MaxDepth
                THEN /\ ret' = Call(op, start, Null, "pending", 0)
                     /\ walk' = [op |-> op, start |-> start,
                                 cur |-> parent[n], depth |-> d + 1]
                ELSE /\ ret' = Call(op, start, Null, "overflow", 0)
                     /\ walk' = NoWalk
  /\ UNCHANGED <<parent, nodes, count, props>>

\* node.prev
ReadPrev(n) == Begin /\ Hop("prev", n, n, 1)

\* node.next
ReadNext(n) == Begin /\ Hop("next", n, n, 1)

\* the nested call this.parent.prev / this.parent.next
Recurse ==
  /\ ~Idle
  /\ Hop(walk.op, walk.start, walk.cur, walk.depth)
  /\ UNCHANGED calls

Next ==
  \/ \E p, n \in Nodes : Push(p, n)
  \/ \E p, n \in Nodes : Unshift(p, n)
  \/ \E p \in Nodes : Pop(p)
  \/ \E p \in Nodes : Shift(p)
  \/ \E p, c \in Nodes : Remove(p, c)
  \/ \E n \in Nodes, v \in SetVals : SetIndex(n, v)
  \/ \E n \in Nodes : ReadIndex(n)
  \/ \E n \in Nodes : ReadPrev(n)
  \/ \E n \in Nodes : ReadNext(n)
  \/ Recurse

Spec == Init /\ [][Next]_vars

\* ------------------------------------------- the tree of the prev/next tests
\* test.js builds parent.nodes = [a, foo, z] and foo.nodes = [bar, baz] by
\* push and then reads prev and next
TreeReads == 3       \* reads explored on the finished tree

T == [root |-> 1, a |-> 2, foo |-> 3, z |-> 4, bar |-> 5, baz |-> 6]

TreeNodes == {T.root, T.a, T.foo, T.z, T.bar, T.baz}

TreeScript ==
  << <<T.foo, T.bar>>, <<T.foo, T.baz>>,
     <<T.root, T.a>>, <<T.root, T.foo>>, <<T.root, T.z>> >>

TreeInit ==
  /\ parent = [n \in TreeNodes |-> Null]
  /\ props = [n \in TreeNodes |->
               Constructor(Obj("type" :> Str(<<"root", "a", "foo", "z", "bar", "baz">>[n])),
                           Undefined, Undefined).props]
  /\ nodes = [n \in TreeNodes |-> NoNodes]
  /\ idx = [n \in TreeNodes |-> NoIdx]
  /\ count = [n \in TreeNodes |-> 0]
  /\ walk = NoWalk
  /\ calls = 0
  /\ ret = Call("new", Null, Null, "none", 0)

TreeBuilt == calls >= Len(TreeScript)

\* the next push of the test
TreePush ==
  /\ Idle /\ ~TreeBuilt
  /\ calls' = calls + 1
  /\ PushBody(TreeScript[calls + 1][1], TreeScript[calls + 1][2])

TreeBegin ==
  /\ Idle /\ TreeBuilt
  /\ calls < Len(TreeScript) + TreeReads
  /\ calls' = calls + 1

TreePrev(n) == TreeBegin /\ Hop("prev", n, n, 1)

TreeNext(n) == TreeBegin /\ Hop("next", n, n, 1)

TreeIndex(n) == TreeBegin /\ ReadIndexBody(n)

TreeStep ==
  \/ TreePush
  \/ \E n \in TreeNodes : TreePrev(n)
  \/ \E n \in TreeNodes : TreeNext(n)
  \/ \E n \in TreeNodes : TreeIndex(n)
  \/ Recurse

SpecTree == TreeInit /\ [][TreeStep]_vars

\* --------------------------------------------- vocabulary of the claims
\* the array as the queries see it: a missing array reads as an empty one
Children(p) == IF IsArray(nodes[p]) THEN nodes[p] ELSE <<>>

\* the 1-based positions n occupies in p's children
Positions(p, n) == {i \in 1..Len(Children(p)) : Children(p)[i] = n}

InChildren(p, n) == Positions(p, n) /= {}

\* n is an element of the children of the node its parent reference names
Linked(n) == parent[n] /= Null /\ InChildren(parent[n], n)

\* p's children are pairwise distinct and every one of them names p as parent
OwnsDistinct(p) ==
  /\ \A i, j \in 1..Len(Children(p)) :
       Children(p)[i] = Children(p)[j] => i = j
  /\ \A i \in 1..Len(Children(p)) : parent[Children(p)[i]] = p

\* s with every occurrence of c deleted
Without(s, c) == SelectSeq(s, LAMBDA x : x /= c)

\* the step is a call of the API; ret' records which one
Called == calls' = calls + 1

\* the step is the call p.op(n)
Did(op, p, n) == Called /\ ret'.op = op /\ ret'.self = p /\ ret'.arg = n

\* ------------------------------------------------------------------ C1
\* C1: after any calls, a read of n.index returns a position of n in its
\* parent's children, returns -1 exactly when n has no parent, the parent
\* has no children array or n is not in it, and returns what a read with
\* no cached value returns, whatever the cache or the index setter left.
C1_IndexIgnoresCache ==
  ret.op = "index" =>
    LET n == ret.self
    IN /\ (ret.val = -1) <=> ~Linked(n)
       /\ ret.val /= -1 => At(Children(parent[n]), ret.val) = n
       /\ ret.val = (IF Linked(n) THEN IndexOf(Children(parent[n]), n) ELSE -1)

\* ------------------------------------------------------------------ C2
\* C2 as stated: between two calls, every node with a parent occurs exactly
\* once in that parent's children.
C2_ParentHoldsChildOnce ==
  Idle => \A n \in Nodes :
            parent[n] /= Null => Cardinality(Positions(parent[n], n)) = 1

\* C2 as amended: p.push(n) and p.unshift(n) leave n.parent = p and n an
\* element of p's children, and a node that is an element of its parent's
\* children stops being one only by a call of pop, shift or remove.
C2_AttachLinksDetachUnlinks ==
  [][/\ \A p, n \in Nodes :
          (Did("push", p, n) \/ Did("unshift", p, n)) =>
             (parent'[n] = p /\ Linked(n)')
     /\ \A n \in Nodes :
          (Linked(n) /\ ~Linked(n)') =>
             (Called /\ ret'.op \in {"pop", "shift", "remove"})]_vars

\* a node was just attached and is linked, while another still names a
\* parent whose children no longer hold it
C2_Witness ==
  /\ ret.op \in {"push", "unshift"}
  /\ parent[ret.arg] = ret.self /\ Linked(ret.arg)
  /\ \E m \in Nodes : m /= ret.arg /\ parent[m] /= Null /\ ~Linked(m)

\* ------------------------------------------------------------------ C3
\* C3: right after p.push(n), whatever n was attached to before, n.parent is
\* p, the last child of p is n, n.index reads length - 1 and push returned
\* the new length.
C3_PushPost ==
  ret.op = "push" =>
    LET p == ret.self
        n == ret.arg
    IN /\ parent[n] = p
       /\ Children(p)[Len(Children(p))] = n
       /\ Index(n) = Len(Children(p)) - 1
       /\ ret.kind = "int" /\ ret.val = Len(Children(p))

\* ------------------------------------------------------------------ C4
\* C4: right after p.unshift(n), n.index reads 0 and every node that was a
\* child of p reads an index one more than it read before.
C4_UnshiftShiftsIndexes ==
  [][\A p, n \in Nodes :
       Did("unshift", p, n) =>
         /\ Index(n)' = 0
         /\ \A x \in Nodes :
              (InChildren(p, x) /\ parent[x] = p) => Index(x)' = Index(x) + 1]_vars

\* ------------------------------------------------------------------ C5
\* C5: when p's children are distinct nodes that name p as parent and c is
\* one of them, p.remove(c) deletes exactly c and keeps the order of the
\* rest, leaves every other array alone, c.index then reads -1 and every
\* remaining child reads its new position; p.remove(c) once more changes
\* nothing and returns null.
C5_RemoveChild ==
  [][\A p, c \in Nodes :
       /\ (Did("remove", p, c) /\ OwnsDistinct(p) /\ InChildren(p, c)) =>
            /\ nodes'[p] = Without(nodes[p], c)
            /\ \A q \in Nodes \ {p} : nodes'[q] = nodes[q]
            /\ Index(c)' = -1
            /\ \A x \in Nodes : \A i \in 1..Len(nodes'[p]) :
                 nodes'[p][i] = x => Index(x)' = i - 1
       /\ (Did("remove", p, c) /\ ret = Call("remove", p, c, "array1", c)
             /\ parent[c] = p /\ OwnsDistinct(p) /\ ~InChildren(p, c)) =>
            /\ ret'.kind = "null"
            /\ UNCHANGED <<parent, nodes, idx, count>>]_vars

\* c was just removed from p, and the child left behind still caches the
\* position 1 it held before the removal
C5_Witness ==
  /\ ret.op = "remove" /\ ret.kind = "array1" /\ ret.val = ret.arg
  /\ parent[ret.arg] = ret.self /\ OwnsDistinct(ret.self)
  /\ ~InChildren(ret.self, ret.arg)
  /\ \E x \in Nodes : Children(ret.self) = <<x>> /\ idx[x] = 1

\* ------------------------------------------------------------------ C6
\* C6: p.remove(c) for a c that is not among p's children, a child of some
\* other node included, returns null and leaves every children sequence as
\* it was.
C6_RemoveAbsentIsNoop ==
  [][(Called /\ ret'.op = "remove" /\ ~InChildren(ret'.self, ret'.arg)) =>
       /\ ret'.kind = "null"
       /\ \A q \in Nodes : Children(q)' = Children(q)]_vars

\* ------------------------------------------------------------------ C7
\* C7: when c is among p's children, p.remove(c) returns the child c itself.
C7_RemoveReturnsChild ==
  [][(Called /\ ret'.op = "remove" /\ InChildren(ret'.self, ret'.arg)) =>
       (ret'.kind = "node" /\ ret'.val = ret'.arg)]_vars

\* ------------------------------------------------------------------ C8
\* a step that runs get prev() or get next() on a node: the call itself or
\* the nested call on the parent
IsHop == ~Idle \/ (Called /\ ret'.op \in {"prev", "next"})

HopAt == IF Idle THEN ret'.self ELSE walk.cur

\* the getter op of node n hands over to the same getter of n's parent (a
\* call that ends the read when the stack has no room for it)
Nested(op, n) ==
  \/ walk'.op = op /\ walk'.cur = parent[n]
  \/ ret'.kind = "overflow"

\* what the claim allows the getter op to do on node n: hand back the sibling
\* next to a position of n, or, at the end of the array, go on with the
\* parent's own prev/next
BySibling(op, n) ==
  LET S == Children(parent[n])
      P == Positions(parent[n], n)
  IN IF op = "prev"
     THEN \/ \E i \in P : /\ i > 1
                          /\ ret'.kind = "node" /\ ret'.val = S[i - 1]
                          /\ walk' = NoWalk
          \/ 1 \in P /\ Nested(op, n)
     ELSE \/ \E i \in P : /\ i < Len(S)
                          /\ ret'.kind = "node" /\ ret'.val = S[i + 1]
                          /\ walk' = NoWalk
          \/ Len(S) \in P /\ Nested(op, n)

Returned(op, n) == Idle /\ ret.op = op /\ ret.self = n

\* C9 as stated: in the tree of the tests bar.prev is null, baz.prev is bar
\* and baz.next is z.
C9_BarPrevIsNull ==
  /\ Returned("prev", T.bar) => ret.kind = "null"
  /\ Returned("prev", T.baz) => (ret.kind = "node" /\ ret.val = T.bar)
  /\ Returned("next", T.baz) => (ret.kind = "node" /\ ret.val = T.z)

\* C9 as amended: in the tree of the tests bar.prev is a (bar is the first
\* child of foo, and a is the sibling before foo), baz.prev is bar and
\* baz.next is z.
C9_BarPrevIsA ==
  /\ Returned("prev", T.bar) => (ret.kind = "node" /\ ret.val = T.a)
  /\ Returned("prev", T.baz) => (ret.kind = "node" /\ ret.val = T.bar)
  /\ Returned("next", T.baz) => (ret.kind = "node" /\ ret.val = T.z)

\* bar.prev was read on the finished tree and returned a
C9_Witness ==
  /\ nodes[T.root] = <<T.a, T.foo, T.z>> /\ nodes[T.foo] = <<T.bar, T.baz>>
  /\ Returned("prev", T.bar) /\ ret.kind = "node" /\ ret.val = T.a

\* ----------------------------------------------------------------- C10
\* C10: every call returns on every heap the API can build: the nested
\* calls of prev and next end after finitely many steps up the parent chain,
\* so no read ends by exhausting the call stack.
C10_GettersReturn == ret.kind /= "overflow"

\* ------------------------------------------------------------- clone()
\* The tree of the clone test (brace with lbrace, inner, ...) is built by
\* push, one of its nodes is cloned, and both trees are then changed.
CloneSize == 3       \* nodes constructed before the clone
CloneCalls == 1      \* calls of the API made after the tree could be complete

Originals == 1..CloneSize

\* the objects clone() creates: the copy of node x is object x + CloneSize
Copies == (CloneSize + 1)..(2 * CloneSize)

CloneIds == Originals \cup Copies

TypeNames == <<"brace", "lbrace", "inner", "rbrace">>

\* new Node({type: 'brace', foo: 'bar'}), new Node({type: 'lbrace', val: '{'}), ...
OriginalArg(n) ==
  IF n = 1 THEN Obj(("type" :> Str("brace")) @@ ("foo" :> Str("bar")))
  ELSE Obj(("type" :> Str(IF n <= Len(TypeNames) THEN TypeNames[n] ELSE "text"))
           @@ ("val" :> Str("{")))

\* an object that does not exist yet has no property
Born(n) == DOMAIN props[n] /= {}

\* an instance of Node: it has the methods, and the constructor gave it isNode
Instance(n) == "isNode" \in DOMAIN props[n]

CloneInit ==
  /\ parent = [n \in CloneIds |-> Null]
  /\ props = [n \in CloneIds |->
               IF n \in Originals
               THEN Constructor(OriginalArg(n), Undefined, Undefined).props
               ELSE <<>>]
  /\ nodes = [n \in CloneIds |-> NoNodes]
  /\ idx = [n \in CloneIds |-> NoIdx]
  /\ count = [n \in CloneIds |-> 0]
  /\ walk = NoWalk
  /\ calls = 0
  /\ ret = Call("new", Null, Null, "none", 0)

\* the nodes found from the nodes of S through at most k children arrays
RECURSIVE Reach(_, _)
Reach(S, k) ==
  IF k = 0 THEN S
  ELSE Reach(S \cup {c \in DOMAIN nodes : \E q \in S : InChildren(q, c)}, k - 1)

\* the node n and everything below it
Sub(n) == Reach({n}, CloneSize)

\* the enumerable own properties of x other than nodes
Enumerable(x) == [k \in DOMAIN props[x] \ {"isNode"} |-> props[x][k]]

\* clone-deep's copy of x: with instances == TRUE it is made by
\* new x.constructor() and then receives the enumerable properties; otherwise
\* it is a plain object that receives them.  Hidden properties (parent,
\* count, idx, isNode) are not enumerable and are not copied.
DeepCopy(x, instances) ==
  IF instances
  THEN Enumerable(x) @@ ("type" :> NullValue) @@ ("val" :> Undefined)
  ELSE Enumerable(x)

\* a clone that copies the node itself and keeps the original's children
CloneBodyShallow(n, instances) ==
  LET root == Constructor(Obj(DeepCopy(n, instances)), Undefined, Undefined)
  IN /\ props' = [props EXCEPT ![n + CloneSize] = root.props]
     /\ nodes' = [nodes EXCEPT ![n + CloneSize] = nodes[n]]
     /\ parent' = [parent EXCEPT ![n + CloneSize] = root.parent]
     /\ ret' = Call("clone", n, Null, "node", n + CloneSize)
     /\ UNCHANGED <<idx, count, walk>>

\* clone(): new this.constructor(clone(this, true))
CloneBody(n, instances) ==
  LET sub == Sub(n)
      root == Constructor(Obj(DeepCopy(n, instances)), Undefined, Undefined)
  IN /\ props' = [c \in CloneIds |->
                    IF c - CloneSize = n THEN root.props
                    ELSE IF c - CloneSize \in sub
                    THEN IF instances
                         THEN DeepCopy(c - CloneSize, TRUE) @@ ("isNode" :> Bool(TRUE))
                         ELSE DeepCopy(c - CloneSize, FALSE)
                    ELSE props[c]]
     /\ nodes' = [c \in CloneIds |->
                    IF c - CloneSize \in sub
                    THEN IF IsArray(nodes[c - CloneSize])
                         THEN [i \in 1..Len(nodes[c - CloneSize]) |->
                                 nodes[c - CloneSize][i] + CloneSize]
                         ELSE NoNodes
                    ELSE nodes[c]]
     /\ parent' = [c \in CloneIds |->
                     IF c - CloneSize = n THEN root.parent
                     ELSE IF c - CloneSize \in sub THEN Null
                     ELSE parent[c]]
     /\ ret' = Call("clone", n, Null, "node", n + CloneSize)
     /\ UNCHANGED <<idx, count, walk>>

Cloned == \E c \in Copies : Born(c)

CloneBegin ==
  /\ calls < CloneSize + CloneCalls
  /\ calls' = calls + 1

\* the tree is built: a node that is nobody's child yet is pushed onto a node
\* that is not below it
CloneBuild(p, n) ==
  /\ ~Cloned /\ CloneBegin
  /\ parent[n] = Null /\ p \notin Sub(n)
  /\ PushCall(p, Ref(n))

CloneCall(n) ==
  /\ ~Cloned /\ CloneBegin
  /\ \E instances \in BOOLEAN : CloneBody(n, instances)

ClonePush(p, n) == Cloned /\ CloneBegin /\ Instance(p) /\ Born(n) /\ PushCall(p, Ref(n))

CloneUnshift(p, n) ==
  Cloned /\ CloneBegin /\ Instance(p) /\ Born(n) /\ UnshiftCall(p, Ref(n))

ClonePop(p) == Cloned /\ CloneBegin /\ Instance(p) /\ PopBody(p)

CloneShift(p) == Cloned /\ CloneBegin /\ Instance(p) /\ ShiftBody(p)

CloneRemove(p, n) ==
  Cloned /\ CloneBegin /\ Instance(p) /\ Born(n) /\ RemoveCall(p, Ref(n))

CloneStep ==
  \/ \E p, n \in Originals : CloneBuild(p, n)
  \/ \E n \in Originals : CloneCall(n)
  \/ \E p, n \in CloneIds : ClonePush(p, n)
  \/ \E p, n \in CloneIds : CloneUnshift(p, n)
  \/ \E p \in CloneIds : ClonePop(p)
  \/ \E p \in CloneIds : CloneShift(p)
  \/ \E p, n \in CloneIds : CloneRemove(p, n)

SpecClone == CloneInit /\ [][CloneStep]_vars

\* ----------------------------------------------------------------- C11
\* C11: in the tree n.clone() returns, every copied descendant's parent is
\* the copy of its original parent, the node that holds it as a child.
C11_CloneRepointsParents ==
  ret.op = "clone" =>
    \A p \in Sub(ret.val) : \A i \in 1..Len(Children(p)) :
      parent[Children(p)[i]] = p

\* ----------------------------------------------------------------- C12
\* what reading property k of object n gives
Get(n, k) == IF k \in DOMAIN props[n] THEN props[n][k] ELSE Undefined

\* a and b have the same enumerable properties with the same values, both
\* or neither have a children array, and their children agree position by
\* position in the same way, down to depth k
RECURSIVE SameTree(_, _, _)
SameTree(a, b, k) ==
  /\ \A key \in DOMAIN Enumerable(a) \cup DOMAIN Enumerable(b) :
       Get(a, key) = Get(b, key)
  /\ IsArray(nodes[a]) <=> IsArray(nodes[b])
  /\ Len(Children(a)) = Len(Children(b))
  /\ k > 0 => \A i \in 1..Len(Children(a)) :
                SameTree(Children(a)[i], Children(b)[i], k - 1)

\* the state right after n.clone() returned r
CloneReturned ==
  ret.op = "clone" =>
    /\ SameTree(ret.self, ret.val, CloneSize)
    /\ Sub(ret.self) \cap Sub(ret.val) = {}

ErrCalls == 3        \* calls of the API explored where calls can fail

\* values that are not nodes: nothing, a string, an object without isNode
NonNodes == {Undefined, Str("a"), Obj("type" :> Str("a"))}

\* new Node({type: 'a', isNode: false}): assign() writes the key isNode over
\* the hidden property the constructor defined
Forged == Obj(("type" :> Str("a")) @@ ("isNode" :> Bool(FALSE)))

\* as Init, and at most one node is built from an object with a key isNode
ErrInit ==
  /\ parent \in {f \in [Nodes -> Nodes \cup {Null}] :
                   \A n \in Nodes : f[n] = Null \/ f[n] < n}
  /\ \E forged \in {{}} \cup {{n} : n \in Nodes} :
       props = [n \in Nodes |->
                  Constructor(IF n \in forged THEN Forged ELSE Str("*"),
                              IF parent[n] = Null THEN Undefined ELSE Ref(parent[n]),
                              Undefined).props]
  /\ nodes = [n \in Nodes |-> NoNodes]
  /\ idx = [n \in Nodes |-> NoIdx]
  /\ count = [n \in Nodes |-> 0]
  /\ walk = NoWalk
  /\ calls = 0
  /\ ret = Call("new", Null, Null, "none", 0)

ErrBegin == calls < ErrCalls /\ Begin

ErrArgs == {Ref(n) : n \in Nodes} \cup NonNodes

ErrPush(p, x) == ErrBegin /\ PushCall(p, x)

ErrUnshift(p, x) == ErrBegin /\ UnshiftCall(p, x)

ErrRemove(p, x) == ErrBegin /\ RemoveCall(p, x)

ErrPop(p) == ErrBegin /\ PopBody(p)

ErrShift(p) == ErrBegin /\ ShiftBody(p)

\* a setter that returns without doing anything
SetterIgnores(name, n, x) ==
  /\ ret' = Call(name, n, AsParent(x), "undef", 0)
  /\ UNCHANGED <<parent, nodes, idx, count, walk, props>>

\* set siblings(val), set prev(val), set next(val): throw new Error(...)
Setter(name, n, x) == Throw(name, n, x)

SetSiblings(n, x) == ErrBegin /\ Setter("setSiblings", n, x)

SetPrev(n, x) == ErrBegin /\ Setter("setPrev", n, x)

SetNext(n, x) == ErrBegin /\ Setter("setNext", n, x)

ErrStep ==
  \/ \E p \in Nodes, x \in ErrArgs : ErrPush(p, x)
  \/ \E p \in Nodes, x \in ErrArgs : ErrUnshift(p, x)
  \/ \E p \in Nodes, x \in ErrArgs : ErrRemove(p, x)
  \/ \E p \in Nodes : ErrPop(p)
  \/ \E p \in Nodes : ErrShift(p)
  \/ \E n \in Nodes, x \in ErrArgs : SetSiblings(n, x)
  \/ \E n \in Nodes, x \in ErrArgs : SetPrev(n, x)
  \/ \E n \in Nodes, x \in ErrArgs : SetNext(n, x)

SpecErr == ErrInit /\ [][ErrStep]_vars

\* ----------------------------------------------------------------- C13
\* C13: push, unshift and remove called with an argument that does not
\* satisfy Node.isNode raise an error, and the children of the receiver, its
\* counter and every node's parent are after the call what they were before.
C13_RejectsBeforeMutation ==
  [][(/\ Called /\ ret'.op \in {"push", "unshift", "remove"}
      /\ (ret'.arg = Null \/ ~IsNode(Ref(ret'.arg)))) =>
       /\ ret'.kind = "error"
       /\ nodes'[ret'.self] = nodes[ret'.self]
       /\ count'[ret'.self] = count[ret'.self]
       /\ parent' = parent]_vars

\* a node that fails isNode and names another parent was pushed onto a node
\* that already has a child, and the push raised
C13_Witness ==
  /\ ret.op = "push" /\ ret.kind = "error" /\ ret.arg /= Null
  /\ parent[ret.arg] /= Null /\ parent[ret.arg] /= ret.self
  /\ Len(Children(ret.self)) >= 1

\* ----------------------------------------------------------------- C14
\* what n.prev (op = "prev") or n.next evaluates to: a node, Null, or -1 when
\* the nested calls exhaust the stack
RECURSIVE WalkFrom(_, _, _)
WalkFrom(op, n, d) ==
  IF ~IsArray(Siblings(n)) THEN Null
  ELSE LET s == At(Siblings(n), Index(n) + (IF op = "prev" THEN -1 ELSE 1))
       IN IF s /= Null THEN s
          ELSE IF d < MaxDepth THEN WalkFrom(op, parent[n], d + 1)
          ELSE -1

\* C14: assigning to siblings, prev or next raises an error for every node,
\* whether it is a root, attached or detached, and leaves what siblings,
\* prev and next return, and the tree, unchanged.
C14_AccessorsAreReadOnly ==
  [][(Called /\ ret'.op \in {"setSiblings", "setPrev", "setNext"}) =>
       /\ ret'.kind = "error"
       /\ \A n \in Nodes :
            /\ Siblings(n)' = Siblings(n)
            /\ WalkFrom("prev", n, 1)' = WalkFrom("prev", n, 1)
            /\ WalkFrom("next", n, 1)' = WalkFrom("next", n, 1)
       /\ UNCHANGED <<parent, nodes>>]_vars

\* next was assigned on a node that names a parent without being among its
\* children: it is detached, and its next still is that parent's first child
C14_Witness ==
  /\ ret.op = "setNext" /\ ret.kind = "error"
  /\ parent[ret.self] /= Null /\ ~Linked(ret.self)
  /\ WalkFrom("next", ret.self, 1) \in Nodes

\* ------------------------------------------------------ the constructors
MaxKeys == 2         \* keys of an object handed to the constructor
NewCalls == 2        \* calls explored: the construction and one more

\* node 1 exists; node 2 is the one the constructor is called for
NewIds == {1, 2}

\* a value for every key an object handed to the constructor may have
Sample ==
  ("type" :> Str("brace")) @@ ("val" :> Str("{")) @@ ("value" :> Str("{"))
  @@ ("foo" :> Str("bar")) @@ ("isNode" :> Bool(FALSE)) @@ ("index" :> Num(11))
  @@ ("siblings" :> Str("x")) @@ ("prev" :> Str("x")) @@ ("next" :> Str("x"))
  @@ ("first" :> Str("x")) @@ ("last" :> Str("x")) @@ ("scope" :> Str("x"))

Mappings ==
  {Obj([k \in K |-> Sample[k]]) :
     K \in {K \in SUBSET DOMAIN Sample : Cardinality(K) <= MaxKeys}}

Scalars == {Str("*"), Undefined}

\* second arguments: a type, nothing, null, a node
SecondArgs == {Str("star"), Undefined, NullValue, Ref(1)}

ThirdArgs == {Undefined, Ref(1)}

\* the accessors of the second Node class that have a setter which throws,
\* and those that have no setter: Object.assign fails on both
ThrowingKeys == {"siblings", "prev", "next", "first", "last", "scope", "isNode"}

\* the second Node class: new Node(value, type, parent) with
\* Object.assign(this, value); isNode is a getter that returns true
ConstructorAssign(value, type, par) ==
  LET given == IF IsString(type) THEN par
               ELSE IF Truthy(type) THEN type ELSE par
      getter == ("isNode" :> Bool(TRUE))
  IN IF ~IsString(type) /\ IsObject(value) /\ "map" \in DOMAIN value
     THEN IF DOMAIN value.map \cap ThrowingKeys /= {}
          THEN [error |-> TRUE, props |-> <<>>, parent |-> Null, idx |-> NoIdx]
          ELSE [error |-> FALSE,
                props |-> [k \in DOMAIN value.map \ {"index"} |-> value.map[k]]
                          @@ getter,
                parent |-> AsParent(given),
                idx |-> IF "index" \in DOMAIN value.map
                        THEN value.map["index"].i ELSE NoIdx]
     ELSE [error |-> FALSE,
           props |-> getter @@ ("type" :> (IF IsString(type) THEN type
                                           ELSE NullValue))
                            @@ ("value" :> value),
           parent |-> AsParent(given), idx |-> NoIdx]

NewInit ==
  /\ parent = [n \in NewIds |-> Null]
  /\ props = [n \in NewIds |->
               IF n = 1 THEN Constructor(Str("*"), Undefined, Undefined).props
               ELSE <<>>]
  /\ nodes = [n \in NewIds |-> NoNodes]
  /\ idx = [n \in NewIds |-> NoIdx]
  /\ count = [n \in NewIds |-> 0]
  /\ walk = NoWalk
  /\ calls = 0
  /\ ret = Call("none", Null, Null, "none", 0)

NewBegin == calls < NewCalls /\ calls' = calls + 1

\* the call new Node(val, type, par) and its arguments
Construction(cls, n, kind, val, type, par) ==
  [op |-> "constructor", self |-> n, arg |-> Null, kind |-> kind, val |-> 0,
   class |-> cls, args |-> <<val, type, par>>]

\* new Node(val, type, par), first class
New(n, val, type, par) ==
  /\ NewBegin /\ ~Born(n)
  /\ LET made == Constructor(val, type, par)
     IN /\ props' = [props EXCEPT ![n] = made.props]
        /\ parent' = [parent EXCEPT ![n] = made.parent]
  /\ ret' = Construction("val", n, "node", val, type, par)
  /\ UNCHANGED <<nodes, idx, count, walk>>

\* new Node(value, type, par), second class
NewAssign(n, value, type, par) ==
  /\ NewBegin /\ ~Born(n)
  /\ LET made == ConstructorAssign(value, type, par)
     IN /\ props' = [props EXCEPT ![n] = made.props]
        /\ parent' = [parent EXCEPT ![n] = made.parent]
        /\ idx' = [idx EXCEPT ![n] = made.idx]
        /\ ret' = Construction("value", n, IF made.error THEN "error" ELSE "node",
                               value, type, par)
  /\ UNCHANGED <<nodes, count, walk>>

NewPush(p, n) == NewBegin /\ Born(p) /\ Born(n) /\ PushCall(p, Ref(n))

NewUnshift(p, n) == NewBegin /\ Born(p) /\ Born(n) /\ UnshiftCall(p, Ref(n))

NewRemove(p, n) == NewBegin /\ Born(p) /\ Born(n) /\ RemoveCall(p, Ref(n))

NewStep ==
  \/ \E val \in Scalars \cup Mappings, type \in SecondArgs, par \in ThirdArgs :
       New(2, val, type, par)
  \/ \E val \in Scalars \cup Mappings, type \in SecondArgs, par \in ThirdArgs :
       NewAssign(2, val, type, par)
  \/ \E p, n \in NewIds : NewPush(p, n)
  \/ \E p, n \in NewIds : NewUnshift(p, n)
  \/ \E p, n \in NewIds : NewRemove(p, n)

SpecNew == NewInit /\ [][NewStep]_vars

\* the state right after a call of a constructor that returned a node
Constructed == ret.op = "constructor" /\ ret.kind = "node"

\* ----------------------------------------------------------------- C15
\* C15: every node a constructor produced, from a scalar or from an object
\* with any keys (isNode included), satisfies Node.isNode, and push, unshift
\* and remove accept it as their argument.
C15_ConstructedIsNode ==
  /\ \A n \in NewIds : Born(n) => IsNode(Ref(n))
  /\ ret.op \in {"push", "unshift", "remove"} => ret.kind /= "error"

\* ----------------------------------------------------------------- C16
\* the names of the computed accessors
Computed == {"siblings", "index", "prev", "next", "first", "last"}

\* the object handed to the constructor by the last call
GivenMap == ret.args[1].map

\* the last call handed an object to the constructor and no string as type
MergeCall ==
  /\ ret.op = "constructor"
  /\ IsObject(ret.args[1]) /\ ~IsString(ret.args[2])

\* C16: constructing a node from an object with a key siblings, index, prev,
\* next, first or last raises no error and leaves the accessor of that name
\* as it is (the node has no own field of that name and index reads -1);
\* every other key of the object is copied onto the node.
C16_ComputedKeysDropped ==
  (MergeCall /\ DOMAIN GivenMap \cap Computed /= {}) =>
     /\ ret.kind = "node"
     /\ DOMAIN props[ret.self] \cap Computed = {}
     /\ Index(ret.self) = -1
     /\ \A k \in DOMAIN GivenMap \ Computed :
          k \in DOMAIN props[ret.self] /\ props[ret.self][k] = GivenMap[k]

\* ----------------------------------------------------------------- C17
\* an object with ordinary keys only: no name of the prototype, no isNode
OrdinaryMap == DOMAIN GivenMap \cap (OwnNames \cup ThrowingKeys) = {}

\* C17: when the first argument is an object its fields are merged onto the
\* node, and the second argument is not used as the type, string or not.
C17_ObjectIsAlwaysMerged ==
  (ret.op = "constructor" /\ IsObject(ret.args[1]) /\ OrdinaryMap) =>
     /\ ret.kind = "node"
     /\ \A k \in DOMAIN GivenMap :
          k \in DOMAIN props[ret.self] /\ props[ret.self][k] = GivenMap[k]
     /\ Get(ret.self, "type") = IF "type" \in DOMAIN GivenMap
                                THEN GivenMap["type"] ELSE Undefined

\* ----------------------------------------------------------------- C18
\* the last call handed a scalar to the constructor
ScalarCall == Constructed /\ ~IsObject(ret.args[1])

\* C18 as stated: with a scalar first argument, a string second argument is
\* the type; a second argument that is no string is stored as the parent and
\* the type is not set; the new node is not added to the parent's children.
C18_SecondArgumentIsParent ==
  ScalarCall =>
    LET n == ret.self
        type == ret.args[2]
    IN /\ IsString(type) => props[n]["type"] = type
       /\ ~IsString(type) => /\ parent[n] = AsParent(type)
                             /\ props[n]["type"] = NullValue
       /\ \A p \in NewIds : ~InChildren(p, n)

\* C18 as amended: the same, except that a second argument that is no string
\* and is undefined or null leaves the third argument as the parent.
C18_FalsySecondGivesThird ==
  ScalarCall =>
    LET n == ret.self
        type == ret.args[2]
        par == ret.args[3]
    IN /\ IsString(type) => props[n]["type"] = type
       /\ ~IsString(type) =>
            /\ parent[n] = AsParent(IF Truthy(type) THEN type ELSE par)
            /\ props[n]["type"] = NullValue
       /\ \A p \in NewIds : ~InChildren(p, n)

\* new Node('*', node) was called with a node as second argument: the node is
\* the parent, it has no children, and the type is null
C18_Witness ==
  /\ ScalarCall /\ ret.args[2] = Ref(1) /\ ret.args[1] = Str("*")
  /\ parent[ret.self] = 1 /\ ~IsArray(nodes[1])
  /\ props[ret.self]["type"] = NullValue

\* ------------------------------------------- isType, hasType and find
TypeCalls == 3       \* calls explored on the typed nodes

TypeIds == {1, 2, 3}

\* a regular expression, by the strings it accepts
Pattern(S) == [t |-> "regexp", accepts |-> S]

\* an array of matchers
List(items) == [t |-> "array", items |-> items]

\* a number that is no integer (1.5, NaN)
NotInteger == [t |-> "number", fraction |-> TRUE]

\* 'foo', 'bar', /^(foo|bar)$/, /null/, and arrays of them
GoodMatchers ==
  {Str("foo"), Str("bar"), Pattern({"foo", "bar"}), Pattern({"null"}),
   List(<<>>), List(<<Str("foo")>>), List(<<Str("foo"), Str("bar")>>),
   List(<<Pattern({"foo", "bar"})>>), List(<<List(<<Str("bar")>>)>>)}

\* values that are no string, regular expression or array
BadMatchers == {Undefined, NullValue, Bool(TRUE), Obj(<<>>), NotInteger}

Numbers == {Num(0), Num(1), Num(5)}

\* String(v), as RegExp.prototype.test converts its argument
Text(v) == IF IsString(v) THEN v.s ELSE v.t

\* what reading property k of object n gives
Prop(n, k) == IF k \in DOMAIN props[n] THEN props[n][k] ELSE Undefined

RECURSIVE IsTypeHelper(_, _), IsTypeMethod(_, _), IsTypeLoop(_, _, _)
\* for (const key of type) if (node.isType(node, key)) return true: the
\* method is called with the node where the matcher belongs
IsTypeLoop(n, items, i) ==
  IF i > Len(items) THEN "false"
  ELSE LET r == IsTypeMethod(n, Ref(n))
       IN IF r = "false" THEN IsTypeLoop(n, items, i + 1) ELSE r

\* isType(node, type), the helper: "true", "false" or "TypeError"
IsTypeHelper(n, type) ==
  CASE type.t = "string" -> IF Prop(n, "type") = type THEN "true" ELSE "false"
    [] type.t = "regexp" ->
         IF Text(Prop(n, "type")) \in type.accepts THEN "true" ELSE "false"
    [] type.t = "array" -> IsTypeLoop(n, type.items, 1)
    [] OTHER -> "TypeError"

\* node.isType(type), the method
IsTypeMethod(n, type) == IsTypeHelper(n, type)

\* a loop that stops after the child at position i
ScanFirstOnly(seq, type, i) ==
  IF i > Len(seq) THEN <<"undef", 0>>
  ELSE LET r == IsTypeHelper(seq[i], type)
       IN IF r = "TypeError" THEN <<"error", 0>>
          ELSE IF r = "true" THEN <<"node", seq[i]>>
          ELSE <<"undef", 0>>

\* the first child of seq, from position i on, for which the helper answers
\* true, as <<"node", child>>; <<"error", 0>> when the helper throws first;
\* <<"undef", 0>> when the loop ends
RECURSIVE Scan(_, _, _)
Scan(seq, type, i) ==
  IF i > Len(seq) THEN <<"undef", 0>>
  ELSE LET r == IsTypeHelper(seq[i], type)
       IN IF r = "TypeError" THEN <<"error", 0>>
          ELSE IF r = "true" THEN <<"node", seq[i]>>
          ELSE Scan(seq, type, i + 1)

\* find(type): <<kind, value>>
Find(p, type) ==
  IF ~IsArray(nodes[p]) THEN <<"null", 0>>
  ELSE IF Len(nodes[p]) = 0 THEN <<"null", 0>>
  ELSE IF type.t = "number"
  THEN IF "i" \in DOMAIN type /\ At(nodes[p], type.i) /= Null
       THEN <<"node", At(nodes[p], type.i)>>
       ELSE <<"undef", 0>>
  ELSE Scan(nodes[p], type, 1)

\* a hasType that looks at the matcher before it looks at the children
HasTypeChecksMatcher(p, type) ==
  IF type.t \notin {"string", "regexp", "array"} THEN "TypeError"
  ELSE IF ~IsArray(nodes[p]) THEN "false"
  ELSE IF Len(nodes[p]) = 0 THEN "false"
  ELSE LET r == Scan(nodes[p], type, 1)
       IN IF r[1] = "error" THEN "TypeError"
          ELSE IF r[1] = "node" THEN "true" ELSE "false"

\* hasType(type): "true", "false" or "TypeError"
HasType(p, type) ==
  IF ~IsArray(nodes[p]) THEN "false"
  ELSE IF Len(nodes[p]) = 0 THEN "false"
  ELSE LET r == Scan(nodes[p], type, 1)
       IN IF r[1] = "error" THEN "TypeError"
          ELSE IF r[1] = "node" THEN "true" ELSE "false"

\* new Node({type: 'foo'}), new Node({type: 'bar'}), new Node('*')
TypeInit ==
  /\ parent = [n \in TypeIds |-> Null]
  /\ props = [n \in TypeIds |->
               IF n = 1 THEN Constructor(Obj("type" :> Str("foo")), Undefined, Undefined).props
               ELSE IF n = 2
               THEN Constructor(Obj("type" :> Str("bar")), Undefined, Undefined).props
               ELSE Constructor(Str("*"), Undefined, Undefined).props]
  /\ nodes = [n \in TypeIds |-> NoNodes]
  /\ idx = [n \in TypeIds |-> NoIdx]
  /\ count = [n \in TypeIds |-> 0]
  /\ walk = NoWalk
  /\ calls = 0
  /\ ret = Call("none", Null, Null, "none", 0)

TypeBegin == calls < TypeCalls /\ calls' = calls + 1

\* the call n.op(type) and what it gave
Query(op, n, kind, val, type) ==
  [op |-> op, self |-> n, arg |-> Null, kind |-> kind, val |-> val,
   args |-> <<type>>]

Asked(op, n, kind, val, type) ==
  /\ ret' = Query(op, n, kind, val, type)
  /\ UNCHANGED <<parent, nodes, idx, count, walk, props>>

TypePush(p, n) == TypeBegin /\ p /= n /\ parent[n] = Null /\ PushCall(p, Ref(n))

TypePop(p) == TypeBegin /\ PopBody(p)

IsTypeCall(n, type) ==
  /\ TypeBegin
  /\ LET r == IsTypeMethod(n, type)
     IN Asked("isType", n, IF r = "TypeError" THEN "error" ELSE r, 0, type)

HasTypeCall(p, type) ==
  /\ TypeBegin
  /\ LET r == HasType(p, type)
     IN Asked("hasType", p, IF r = "TypeError" THEN "error" ELSE r, 0, type)

FindCall(p, type) ==
  /\ TypeBegin
  /\ Asked("find", p, Find(p, type)[1], Find(p, type)[2], type)

TypeStep ==
  \/ \E p, n \in TypeIds : TypePush(p, n)
  \/ \E p \in TypeIds : TypePop(p)
  \/ \E n \in TypeIds, m \in GoodMatchers \cup BadMatchers \cup Numbers :
       IsTypeCall(n, m)
  \/ \E n \in TypeIds, m \in GoodMatchers \cup BadMatchers \cup Numbers :
       HasTypeCall(n, m)
  \/ \E n \in TypeIds, m \in GoodMatchers \cup BadMatchers \cup Numbers :
       FindCall(n, m)

SpecType == TypeInit /\ [][TypeStep]_vars

\* ----------------------------------------------------------------- C19
\* the matcher m matches the type v: a string by equality, a pattern by
\* testing the type, a list when one of its elements matches
RECURSIVE Matches(_, _)
Matches(v, m) ==
  CASE m.t = "string" -> v = m
    [] m.t = "regexp" -> Text(v) \in m.accepts
    [] m.t = "array" -> \E i \in 1..Len(m.items) : Matches(v, m.items[i])
    [] OTHER -> FALSE

\* C19: n.isType(m) is true exactly when m matches n's type: a string by
\* equality, a pattern by testing the type, a list when at least one element
\* matches; for a list it answers true or false and does not raise.
C19_IsTypeMatches ==
  (ret.op = "isType" /\ ret.args[1] \in GoodMatchers) =>
     ret.kind = IF Matches(Prop(ret.self, "type"), ret.args[1])
                THEN "true" ELSE "false"

\* ----------------------------------------------------------------- C20
\* the last call was n.op(m) with m no string, no pattern and no list
BadCall(op) == ret.op = op /\ ret.args[1] \in BadMatchers

\* C20 as stated: isType, hasType and find (the argument not an integer)
\* raise for a matcher that is no string, no pattern and no list, whatever
\* the receiver and whether or not it has children.
C20_BadMatcherAlwaysRaises ==
  (BadCall("isType") \/ BadCall("hasType") \/ BadCall("find")) =>
     ret.kind = "error"

\* C20 amended: isType raises for every receiver; hasType, and find with an
\* argument that is no number, raise when the receiver has at least one child
\* and answer false, respectively null, when it has none; find with a number
\* that is no integer does not raise.
C20_RaisesOnceAChildIsLookedAt ==
  /\ BadCall("isType") => ret.kind = "error"
  /\ BadCall("hasType") =>
       ret.kind = IF Children(ret.self) /= <<>> THEN "error" ELSE "false"
  /\ (BadCall("find") /\ ret.args[1].t /= "number") =>
       ret.kind = IF Children(ret.self) /= <<>> THEN "error" ELSE "null"
  /\ (BadCall("find") /\ ret.args[1].t = "number") =>
       ret.kind = IF Children(ret.self) /= <<>> THEN "undef" ELSE "null"

\* hasType(undefined) was called on a node with a child, and raised
C20_Witness ==
  /\ BadCall("hasType")
  /\ ret.args[1] = Undefined
  /\ Children(ret.self) /= <<>>
  /\ ret.kind = "error"

\* ----------------------------------------------------------------- C21
\* the last call was n.op(m) with m a string or a pattern
PlainCall(op) == ret.op = op /\ ret.args[1].t \in {"string", "regexp"}

\* the positions of p's children whose type the matcher m matches
Hits(p, m) ==
  {i \in 1..Len(Children(p)) : Matches(Prop(Children(p)[i], "type"), m)}

\* the smallest element of a non-empty set of positions
Least(S) == CHOOSE i \in S : \A j \in S : i <= j

\* C21: find(m) with a string or pattern matcher returns the first child, in
\* children order, whose type matches m, and returns null (strictly) when the
\* children are absent, empty or hold no matching child.
C21_FindFirstOrNull ==
  PlainCall("find") =>
    IF Hits(ret.self, ret.args[1]) /= {}
    THEN /\ ret.kind = "node"
         /\ ret.val = Children(ret.self)[Least(Hits(ret.self, ret.args[1]))]
    ELSE ret.kind = "null"

\* ----------------------------------------------------------------- C22
\* C22: find(i) with an integer i returns the child at position i when
\* 0 <= i < length, and null when the children are absent or i is out of
\* range.
C22_FindByPosition ==
  (ret.op = "find" /\ ret.args[1] \in Numbers) =>
    IF At(Children(ret.self), ret.args[1].i) /= Null
    THEN ret.kind = "node" /\ ret.val = At(Children(ret.self), ret.args[1].i)
    ELSE ret.kind = "null"

\* ----------------------------------------------------------------- C23
\* C23: for a string or pattern matcher m, hasType(m) is true exactly when
\* some child's type matches m, which is exactly when find(m) returns a
\* child; it is false for a node whose children are absent or empty.
C23_HasTypeIsFindsChild ==
  PlainCall("hasType") =>
    /\ ret.kind \in {"true", "false"}
    /\ (ret.kind = "true") = (Hits(ret.self, ret.args[1]) /= {})
    /\ (ret.kind = "true") = (Find(ret.self, ret.args[1])[1] = "node")
    /\ Children(ret.self) = <<>> => ret.kind = "false"

\* hasType(m) answered true for a node whose first child does not match m
C23_Witness ==
  /\ PlainCall("hasType")
  /\ ret.kind = "true"
  /\ 1 \notin Hits(ret.self, ret.args[1])

\* ----------------------------------------------------------------- C24
\* C24: pop() removes and returns the last child and shift() removes and
\* returns the first child, the remaining children keeping their order; on a
\* node whose children are absent or empty both return no value, raise no
\* error and leave the children as they were.
C24_PopShiftTakeTheEnds ==
  [][\A p \in Nodes :
       /\ Did("pop", p, Null) =>
            IF Children(p) /= <<>>
            THEN /\ ret'.kind = "node"
                 /\ ret'.val = Children(p)[Len(Children(p))]
                 /\ nodes' = [nodes EXCEPT ![p] = SubSeq(@, 1, Len(@) - 1)]
            ELSE ret'.kind = "undef" /\ nodes' = nodes
       /\ Did("shift", p, Null) =>
            IF Children(p) /= <<>>
            THEN /\ ret'.kind = "node"
                 /\ ret'.val = Children(p)[1]
                 /\ nodes' = [nodes EXCEPT ![p] = Tail(@)]
            ELSE ret'.kind = "undef" /\ nodes' = nodes]_vars

\* shift() returned the first of three children and the other two are left
C24_Witness ==
  /\ ret.op = "shift" /\ ret.kind = "node"
  /\ Len(Children(ret.self)) = 2
  /\ ret.val \notin {Children(ret.self)[1], Children(ret.self)[2]}
  /\ Children(ret.self)[1] /= Children(ret.self)[2]

\* ----------------------------------------------------------------- C25
\* C25: after any push, unshift, pop, shift and remove calls on p, its child
\* counter (count) equals the length of p.nodes whenever p.nodes exists, and
\* is never negative.
C25_CountIsLength ==
  \A p \in Nodes :
    /\ count[p] >= 0
    /\ IsArray(nodes[p]) => count[p] = Len(nodes[p])

EndsCalls == 3       \* calls explored around the first / last getters

\* last(arr, n = 1): Array.isArray(arr) ? arr[arr.length - n] : null, as
\* <<kind, value>>; a position outside the array reads as undefined
LastOf(arr) ==
  IF IsArray(arr)
  THEN IF At(arr, Len(arr) - 1) /= Null
       THEN <<"node", At(arr, Len(arr) - 1)>> ELSE <<"undef", 0>>
  ELSE <<"null", 0>>

\* get first(): this.nodes ? this.nodes[0] : null
First(p) ==
  IF IsArray(nodes[p])
  THEN IF At(nodes[p], 0) /= Null
       THEN <<"node", At(nodes[p], 0)>> ELSE <<"undef", 0>>
  ELSE <<"null", 0>>

\* get last(): this.nodes ? last(this.nodes) : null
Last(p) == IF IsArray(nodes[p]) THEN LastOf(nodes[p]) ELSE <<"null", 0>>

EndsBegin == calls < EndsCalls /\ Begin

\* a getter returned: nothing is assigned
Got(op, p, r) ==
  /\ ret' = Call(op, p, Null, r[1], r[2])
  /\ UNCHANGED <<parent, nodes, idx, count, walk, props>>

\* node.first
ReadFirst(p) == EndsBegin /\ Got("first", p, First(p))

\* node.last
ReadLast(p) == EndsBegin /\ Got("last", p, Last(p))

EndsPush(p, n) == EndsBegin /\ PushCall(p, Ref(n))

EndsUnshift(p, n) == EndsBegin /\ UnshiftCall(p, Ref(n))

EndsPop(p) == EndsBegin /\ PopBody(p)

EndsShift(p) == EndsBegin /\ ShiftBody(p)

EndsRemove(p, c) == EndsBegin /\ RemoveCall(p, Ref(c))

EndsStep ==
  \/ \E p, n \in Nodes : EndsPush(p, n)
  \/ \E p, n \in Nodes : EndsUnshift(p, n)
  \/ \E p \in Nodes : EndsPop(p)
  \/ \E p \in Nodes : EndsShift(p)
  \/ \E p, c \in Nodes : EndsRemove(p, c)
  \/ \E p \in Nodes : ReadFirst(p)
  \/ \E p \in Nodes : ReadLast(p)

SpecEnds == Init /\ [][EndsStep]_vars

\* ----------------------------------------------------------------- C27
\* C27: p.first is the element at position 0 of p's children and p.last the
\* element at position length-1, and both are null when the children are
\* absent or empty, for example after the only child was popped or removed.
C27_FirstLastOrNull ==
  /\ ret.op = "first" =>
       IF Children(ret.self) /= <<>>
       THEN ret.kind = "node" /\ ret.val = Children(ret.self)[1]
       ELSE ret.kind = "null"
  /\ ret.op = "last" =>
       IF Children(ret.self) /= <<>>
       THEN /\ ret.kind = "node"
            /\ ret.val = Children(ret.self)[Len(Children(ret.self))]
       ELSE ret.kind = "null"

\* ----------------------------------------------------------------- C29
\* C29: pop, shift and remove never modify the parent reference of the node
\* they take out of the children: a node taken out of its parent's children
\* still names that parent afterwards; remove sets the cached position of
\* the node taken out to -1, pop and shift leave its cache as it was.
C29_TakenOutKeepsParent ==
  [][\A p \in Nodes :
       /\ ((Did("pop", p, Null) \/ Did("shift", p, Null)) /\ ret'.kind = "node") =>
            /\ parent' = parent
            /\ parent[ret'.val] = p => parent'[ret'.val] = p
            /\ idx'[ret'.val] = idx[ret'.val]
       /\ \A c \in Nodes :
            (Did("remove", p, c) /\ ret'.kind = "array1") =>
              /\ parent' = parent
              /\ parent[ret'.val] = p => parent'[ret'.val] = p
              /\ idx'[ret'.val] = -1]_vars

\* ----------------------------------------------------------------- C30
\* the sequence s without its last element
Front(s) == IF s = <<>> THEN s ELSE SubSeq(s, 1, Len(s) - 1)

\* the sequence s without its first element
Rest(s) == IF s = <<>> THEN s ELSE Tail(s)

\* C30: when the nodes attached to p are pairwise distinct and every removed
\* node is a child of p, p's children follow a plain sequence step by step:
\* push appends, unshift prepends, pop drops the last element, shift drops
\* the first, remove deletes the element, and the children stay pairwise
\* distinct children of p.
C30_ChildrenFollowPlainSequence ==
  [][\A p \in Nodes : OwnsDistinct(p) =>
       /\ \A x \in Nodes :
            /\ (Did("push", p, x) /\ ~InChildren(p, x)) =>
                 Children(p)' = Append(Children(p), x) /\ OwnsDistinct(p)'
            /\ (Did("unshift", p, x) /\ ~InChildren(p, x)) =>
                 Children(p)' = <<x>> \o Children(p) /\ OwnsDistinct(p)'
            /\ (Did("remove", p, x) /\ InChildren(p, x)) =>
                 Children(p)' = Without(Children(p), x) /\ OwnsDistinct(p)'
       /\ Did("pop", p, Null) =>
            Children(p)' = Front(Children(p)) /\ OwnsDistinct(p)'
       /\ Did("shift", p, Null) =>
            Children(p)' = Rest(Children(p)) /\ OwnsDistinct(p)']_vars

\* a node was unshifted in front of another child of the same parent, which
\* is not its own child
C30_Witness ==
  /\ ret.op = "unshift" /\ ret.kind = "int"
  /\ OwnsDistinct(ret.self)
  /\ ~InChildren(ret.self, ret.self)
  /\ Len(Children(ret.self)) = 2
  /\ Children(ret.self)[1] = ret.arg

\* ----------------------------------------------------------------- C31
\* C31: p.push(c) and p.unshift(c) change only p's children, p's child
\* counter and c's parent reference: c stays in the children of the node it
\* was attached to before, every other node's children are unchanged, and c
\* can be an element of two children sequences at once.
C31_AttachTouchesOnlyParentAndChild ==
  [][\A p, c \in Nodes :
       ((Did("push", p, c) \/ Did("unshift", p, c)) /\ ret'.kind = "int") =>
         /\ \A q \in Nodes \ {p} : nodes'[q] = nodes[q] /\ count'[q] = count[q]
         /\ \A x \in Nodes \ {c} : parent'[x] = parent[x]
         /\ idx' = idx /\ props' = props
         /\ parent'[c] = p
         /\ count'[p] = count[p] + 1
         /\ InChildren(p, c)'
         /\ \A q \in Nodes : InChildren(q, c) => InChildren(q, c)']_vars

\* c was pushed onto p while it was a child of another node q, and is an
\* element of both children sequences
C31_Witness ==
  /\ ret.op = "push" /\ ret.kind = "int"
  /\ InChildren(ret.self, ret.arg)
  /\ \E q \in Nodes \ {ret.self, ret.arg} : InChildren(q, ret.arg)

\* ------------------------------------- calls that keep to the discipline
TidyCalls == 4       \* calls explored under the discipline

\* n is an element of no children sequence
Loose(n) == \A q \in Nodes : ~InChildren(q, n)

TidyBegin == calls < TidyCalls /\ Begin

\* push and unshift of a node that is in no children sequence, pop, shift,
\* and c.parent.remove(c)
TidyStep ==
  \/ \E p, n \in Nodes : TidyBegin /\ Loose(n) /\ PushCall(p, Ref(n))
  \/ \E p, n \in Nodes : TidyBegin /\ Loose(n) /\ UnshiftCall(p, Ref(n))
  \/ \E p \in Nodes : TidyBegin /\ PopBody(p)
  \/ \E p \in Nodes : TidyBegin /\ ShiftBody(p)
  \/ \E p, c \in Nodes : TidyBegin /\ parent[c] = p /\ RemoveCall(p, Ref(c))

SpecTidy == Init /\ [][TidyStep]_vars

\* ----------------------------------------------------------------- C32
\* C32: when no node is passed to push or unshift while it is an element of
\* a children sequence, and remove is called on the node's parent only, then
\* in every reachable state every children sequence is free of duplicates
\* and every element of p's children names p as its parent.
C32_ChildrenAreOwnAndDistinct == \A p \in Nodes : OwnsDistinct(p)

\* a node was taken out of one parent and attached to another, which now
\* holds it behind a child it had before
C32_Witness ==
  /\ ret.op = "push" /\ ret.kind = "int" /\ calls = TidyCalls
  /\ Len(Children(ret.self)) = 2
  /\ \E q \in Nodes \ {ret.self} : IsArray(nodes[q]) /\ nodes[q] = <<>>

\* ------------------------------------ reads of nodes that are detached
DetNodes == 4        \* r, a, q and a node constructed with q as its parent
DetCalls == 3        \* calls explored on them

DetIds == 1..DetNodes

\* four nodes; each may have been given an earlier one as its parent
DetInit ==
  /\ parent \in {f \in [DetIds -> DetIds \cup {Null}] :
                   \A n \in DetIds : f[n] = Null \/ f[n] < n}
  /\ props = [n \in DetIds |->
               Constructor(Str("*"),
                           IF parent[n] = Null THEN Undefined ELSE Ref(parent[n]),
                           Undefined).props]
  /\ nodes = [n \in DetIds |-> NoNodes]
  /\ idx = [n \in DetIds |-> NoIdx]
  /\ count = [n \in DetIds |-> 0]
  /\ walk = NoWalk
  /\ calls = 0
  /\ ret = Call("new", Null, Null, "none", 0)

DetBegin == calls < DetCalls /\ Begin

\* push, pop, remove, and the reads of index, prev and next
DetStep ==
  \/ \E p, n \in DetIds : DetBegin /\ PushCall(p, Ref(n))
  \/ \E p \in DetIds : DetBegin /\ PopBody(p)
  \/ \E p, c \in DetIds : DetBegin /\ RemoveCall(p, Ref(c))
  \/ \E n \in DetIds : DetBegin /\ ReadIndexBody(n)
  \/ \E n \in DetIds : DetBegin /\ Hop("prev", n, n, 1)
  \/ \E n \in DetIds : DetBegin /\ Hop("next", n, n, 1)
  \/ Recurse

SpecDetached == DetInit /\ [][DetStep]_vars

\* ----------------------------------------------------------------- C33
\* n names a parent and is not an element of that parent's children
Detached(n) == parent[n] /= Null /\ ~InChildren(parent[n], n)

\* the read that has returned gave what WalkFrom gives as w: a node, null,
\* or the error of a stack without room
Gave(w) ==
  IF w = Null THEN ret.kind = "null"
  ELSE IF w = -1 THEN ret.kind = "overflow"
  ELSE ret.kind = "node" /\ ret.val = w

\* the node k steps up the parent references from n, Null past the root
RECURSIVE Up(_, _)
Up(n, k) == IF k = 0 \/ n = Null THEN n ELSE Up(parent[n], k - 1)

\* every chain of parent references ends at a root
NoCycle == \A n \in DetIds : Up(n, DetNodes) = Null

\* C33 as stated: for a node n that names a parent without being among its
\* children, n.index reads -1, n.next returns the parent's first child when
\* the parent has one, and n.prev returns the parent's own prev.  Stated for
\* the trees in which no node is its own ancestor.
C33_DetachedReads ==
  NoCycle =>
  /\ (ret.op = "index" /\ Detached(ret.self)) => ret.val = -1
  /\ \A n \in DetIds :
       /\ (Returned("next", n) /\ Detached(n) /\ Children(parent[n]) /= <<>>) =>
            ret.kind = "node" /\ ret.val = Children(parent[n])[1]
       /\ (Returned("prev", n) /\ Detached(n)) =>
            Gave(WalkFrom("prev", parent[n], 1))

\* C33 as amended: the same, with n.prev the parent's own prev when the
\* parent has a children array, and null when it has none.
C33_DetachedReadsOfParentWithArray ==
  /\ (ret.op = "index" /\ Detached(ret.self)) => ret.val = -1
  /\ \A n \in DetIds :
       /\ (Returned("next", n) /\ Detached(n) /\ Children(parent[n]) /= <<>>) =>
            ret.kind = "node" /\ ret.val = Children(parent[n])[1]
       /\ (Returned("prev", n) /\ Detached(n)) =>
            IF IsArray(nodes[parent[n]])
            THEN Gave(WalkFrom("prev", parent[n], 1))
            ELSE ret.kind = "null"

\* next was read on a node that was taken out of its parent's children, and
\* returned the child the parent has left
C33_Witness ==
  /\ \E n \in DetIds :
       /\ Returned("next", n) /\ Detached(n)
       /\ IsArray(Siblings(n)) /\ Len(Siblings(n)) = 1
       /\ ret.kind = "node" /\ ret.val = Siblings(n)[1]
       /\ ret.val \notin {n, parent[n]}

\* ------------------------------------------------------------ the reads
ReadsCalls == 3      \* calls explored: pushes and reads

\* matchers handed to find, isType and hasType
ReadsArgs == {Str("foo"), Pattern({"foo", "null"}), List(<<Str("foo")>>),
              Undefined, Num(0)}

\* three nodes, each possibly given an earlier one as its parent; the first
\* is new Node({type: 'foo', isScope: true})
ReadsInit ==
  /\ parent \in {f \in [Nodes -> Nodes \cup {Null}] :
                   \A n \in Nodes : f[n] = Null \/ f[n] < n}
  /\ props = [n \in Nodes |->
               Constructor(IF n = 1
                           THEN Obj(("type" :> Str("foo")) @@ ("isScope" :> Bool(TRUE)))
                           ELSE Str("*"),
                           IF parent[n] = Null THEN Undefined ELSE Ref(parent[n]),
                           Undefined).props]
  /\ nodes = [n \in Nodes |-> NoNodes]
  /\ idx = [n \in Nodes |-> NoIdx]
  /\ count = [n \in Nodes |-> 0]
  /\ walk = NoWalk
  /\ calls = 0
  /\ ret = Call("new", Null, Null, "none", 0)

ReadsBegin == calls < ReadsCalls /\ Begin

\* get siblings(): this.parent ? this.parent.nodes : null
SiblingsOf(n) ==
  IF parent[n] = Null THEN <<"null", 0>>
  ELSE IF IsArray(nodes[parent[n]]) THEN <<"array", parent[n]>>
  ELSE <<"undef", 0>>

\* get scope(): !this.isScope ? this.parent : this
Scope(n) ==
  IF ~Truthy(Prop(n, "isScope"))
  THEN IF parent[n] = Null THEN <<"undef", 0>> ELSE <<"node", parent[n]>>
  ELSE <<"node", n>>

\* node.isType(type) and what it gave
ReadsIsType(n, type) ==
  LET r == IsTypeMethod(n, type)
  IN Asked("isType", n, IF r = "TypeError" THEN "error" ELSE r, 0, type)

\* node.hasType(type) and what it gave
ReadsHasType(n, type) ==
  LET r == HasType(n, type)
  IN Asked("hasType", n, IF r = "TypeError" THEN "error" ELSE r, 0, type)

\* push, the getters siblings, scope, first, last, index, prev and next, and
\* find, isType and hasType
ReadsStep ==
  \/ \E p, n \in Nodes : ReadsBegin /\ PushCall(p, Ref(n))
  \/ \E n \in Nodes : ReadsBegin /\ Got("siblings", n, SiblingsOf(n))
  \/ \E n \in Nodes : ReadsBegin /\ Got("scope", n, Scope(n))
  \/ \E n \in Nodes : ReadsBegin /\ Got("first", n, First(n))
  \/ \E n \in Nodes : ReadsBegin /\ Got("last", n, Last(n))
  \/ \E n \in Nodes : ReadsBegin /\ ReadIndexBody(n)
  \/ \E n \in Nodes : ReadsBegin /\ Hop("prev", n, n, 1)
  \/ \E n \in Nodes : ReadsBegin /\ Hop("next", n, n, 1)
  \/ \E n \in Nodes, m \in ReadsArgs :
       ReadsBegin /\ Asked("find", n, Find(n, m)[1], Find(n, m)[2], m)
  \/ \E n \in Nodes, m \in ReadsArgs : ReadsBegin /\ ReadsIsType(n, m)
  \/ \E n \in Nodes, m \in ReadsArgs : ReadsBegin /\ ReadsHasType(n, m)
  \/ Recurse

SpecReads == ReadsInit /\ [][ReadsStep]_vars

\* ----------------------------------------------------------------- C34
ReadOps == {"siblings", "index", "prev", "next", "first", "last", "scope",
            "find", "isType", "hasType"}

\* n and the nodes up its chain of parent references
Ancestry(n) == {Up(n, k) : k \in 0..NumNodes} \ {Null}

\* C34: reading siblings, index, prev, next, first, last or scope, and
\* calling find, isType or hasType, never changes a node's children, parent
\* reference or child counter; the only state a read may write is the cached
\* index of the queried node and of its ancestors.
C34_ReadsWriteOnlyIndexCaches ==
  [][((Called \/ ~Idle) /\ ret'.op \in ReadOps) =>
       /\ UNCHANGED <<nodes, parent, count, props>>
       /\ \A x \in Nodes : idx'[x] /= idx[x] => x \in Ancestry(ret'.self)]_vars

\* prev was read on the only child of an only child: the read went on to the
\* parent and left a cached index on both
C34_Witness ==
  \E n \in Nodes :
    /\ Returned("prev", n) /\ calls = ReadsCalls
    /\ Linked(n) /\ Linked(parent[n]) /\ parent[n] /= n
    /\ idx[n] = 0 /\ idx[parent[n]] = 0

\* ----------------------------------------------------------------- C35
\* the last call was p.op(c) and it returned
Was(op, p, c) ==
  ret.op = op /\ ret.self = p /\ ret.arg = c /\ ret.kind = "int"

\* C35: p.push(c) immediately followed by p.pop() returns c and leaves p's
\* children as they were before the push (absent counting as empty), and
\* p.unshift(c) immediately followed by p.shift() likewise: push appends c
\* and the pop that follows returns c and takes exactly that element away;
\* unshift prepends c and the shift that follows returns c and takes exactly
\* that element away.
C35_PushPopRoundTrip ==
  [][\A p, c \in Nodes :
       /\ (Did("push", p, c) /\ ret'.kind = "int") =>
            Children(p)' = Append(Children(p), c)
       /\ (Was("push", p, c) /\ Did("pop", p, Null)) =>
            /\ ret'.kind = "node" /\ ret'.val = c
            /\ Append(Children(p)', c) = Children(p)
       /\ (Did("unshift", p, c) /\ ret'.kind = "int") =>
            Children(p)' = <<c>> \o Children(p)
       /\ (Was("unshift", p, c) /\ Did("shift", p, Null)) =>
            /\ ret'.kind = "node" /\ ret'.val = c
            /\ <<c>> \o Children(p)' = Children(p)]_vars

\* the second call popped the node that the first call had attached: the
\* children array exists and is empty again
C35_Witness ==
  /\ calls = 2 /\ ret.op = "pop" /\ ret.kind = "node"
  /\ IsArray(nodes[ret.self]) /\ Children(ret.self) = <<>>
  /\ parent[ret.val] = ret.self
  /\ count[ret.self] = 0

\* ----------------------------------- an object that brings a nodes array
GivenCalls == 3      \* calls explored: the construction and two more

\* the node the constructor is called for; the others exist before
GivenNew == 3

GivenOld == {1, 2}

\* the arrays handed over under the key nodes
GivenKids == {<<>>, <<1>>, <<2>>, <<1, 2>>, <<2, 1>>}

\* {type: 'brace', nodes: [...]}
GivenArg(kids) ==
  Obj(("type" :> Str("brace"))
      @@ ("nodes" :> List([i \in 1..Len(kids) |-> Ref(kids[i])])))

\* the children array an object's own field nodes holds
NodesOf(fields) ==
  IF "nodes" \in DOMAIN fields
  THEN [i \in 1..Len(fields["nodes"].items) |-> fields["nodes"].items[i].node]
  ELSE NoNodes

\* two nodes, the second possibly given the first as its parent, and a
\* third that is not constructed yet
GivenInit ==
  /\ parent \in {f \in [Nodes -> Nodes \cup {Null}] :
                   \A n \in Nodes : f[n] = Null \/ (n = 2 /\ f[n] = 1)}
  /\ props = [n \in Nodes |->
               IF n = GivenNew THEN <<>>
               ELSE Constructor(Str("*"),
                                IF parent[n] = Null THEN Undefined
                                ELSE Ref(parent[n]),
                                Undefined).props]
  /\ nodes = [n \in Nodes |-> NoNodes]
  /\ idx = [n \in Nodes |-> NoIdx]
  /\ count = [n \in Nodes |-> 0]
  /\ walk = NoWalk
  /\ calls = 0
  /\ ret = Call("none", Null, Null, "none", 0)

GivenBegin == calls < GivenCalls /\ calls' = calls + 1

\* a constructor that makes itself the parent of the nodes it is given
NewGivenAdopts(n, kids) ==
  /\ GivenBegin /\ ~Born(n)
  /\ LET made == Constructor(GivenArg(kids), Undefined, Undefined)
     IN /\ props' = [props EXCEPT
                       ![n] = [k \in DOMAIN made.props \ {"nodes"} |-> made.props[k]]]
        /\ nodes' = [nodes EXCEPT ![n] = NodesOf(made.props)]
        /\ parent' = [x \in DOMAIN parent |->
                        IF x = n THEN made.parent
                        ELSE IF \E i \in 1..Len(kids) : kids[i] = x THEN n
                        ELSE parent[x]]
  /\ count' = [count EXCEPT ![n] = 0]
  /\ ret' = Construction("val", n, "node", GivenArg(kids), Undefined, Undefined)
  /\ UNCHANGED <<idx, walk>>

\* new Node({type: 'brace', nodes: kids}), first class: assign() writes
\* node.nodes = token.nodes; count is defined as 0
NewGiven(n, kids) ==
  /\ GivenBegin /\ ~Born(n)
  /\ LET made == Constructor(GivenArg(kids), Undefined, Undefined)
     IN /\ props' = [props EXCEPT
                       ![n] = [k \in DOMAIN made.props \ {"nodes"} |-> made.props[k]]]
        /\ nodes' = [nodes EXCEPT ![n] = NodesOf(made.props)]
        /\ parent' = [parent EXCEPT ![n] = made.parent]
  /\ count' = [count EXCEPT ![n] = 0]
  /\ ret' = Construction("val", n, "node", GivenArg(kids), Undefined, Undefined)
  /\ UNCHANGED <<idx, walk>>

\* the same call, second class: Object.assign(this, value); no counter
NewGivenAssign(n, kids) ==
  /\ GivenBegin /\ ~Born(n)
  /\ LET made == ConstructorAssign(GivenArg(kids), Undefined, Undefined)
     IN /\ props' = [props EXCEPT
                       ![n] = [k \in DOMAIN made.props \ {"nodes"} |-> made.props[k]]]
        /\ nodes' = [nodes EXCEPT ![n] = NodesOf(made.props)]
        /\ parent' = [parent EXCEPT ![n] = made.parent]
        /\ idx' = [idx EXCEPT ![n] = made.idx]
  /\ ret' = Construction("value", n, "node", GivenArg(kids), Undefined, Undefined)
  /\ UNCHANGED <<count, walk>>

GivenStep ==
  \/ \E kids \in GivenKids : NewGiven(GivenNew, kids)
  \/ \E kids \in GivenKids : NewGivenAssign(GivenNew, kids)
  \/ \E p, n \in Nodes : GivenBegin /\ Born(p) /\ Born(n) /\ PushCall(p, Ref(n))
  \/ \E p \in Nodes : GivenBegin /\ Born(p) /\ PopBody(p)
  \/ \E p, n \in Nodes : GivenBegin /\ Born(p) /\ Born(n) /\ RemoveCall(p, Ref(n))

SpecGiven == GivenInit /\ [][GivenStep]_vars

\* ----------------------------------------------------------------- C36
\* C36: a node constructed from a mapping that carries a children sequence
\* receives that sequence as its own children without becoming the parent of
\* its elements: their parent references are the same after the construction
\* as before, and the new node's child counter stays 0.
C36_GivenChildrenKeepTheirParent ==
  [][\A kids \in GivenKids :
       (ret'.op = "constructor" /\ calls' = calls + 1
          /\ ret'.args[1] = GivenArg(kids)) =>
         /\ nodes'[GivenNew] = kids
         /\ \A x \in GivenOld : parent'[x] = parent[x] /\ nodes'[x] = nodes[x]
         /\ count'[GivenNew] = 0]_vars

\* the node was constructed with an array of two nodes, one of them a child
\* of the other, and neither names the new node as its parent
C36_Witness ==
  /\ Constructed /\ ret.self = GivenNew
  /\ Len(Children(GivenNew)) = 2
  /\ \E x \in GivenOld : Linked(x) /\ parent[x] \in GivenOld
  /\ \A x \in GivenOld : InChildren(GivenNew, x) /\ parent[x] /= GivenNew
====
